---- MODULE Spec2Model ----
(***************************************************************************)
(* A model of jira_client: the paginated fetch engine                      *)
(* JiraIssuesAPI.fetch_all (src/jira_client/issues_api.py), a Python        *)
(* generator driven by its caller, against a remote search_issues           *)
(* endpoint.                                                                *)
(*                                                                          *)
(* Two servers are modelled.  Under Spec the endpoint is a mock that may    *)
(* answer every call with any page and any total.  Under SpecColl it is a   *)
(* backing collection of records, paged faithfully (the slice at startAt,   *)
(* total = size of the collection), into which records are inserted while   *)
(* the generator runs.                                                      *)
(***************************************************************************)
EXTENDS Integers, Sequences, FiniteSets, TLC

\* ------------------------------------------------------------ bounds
NumIds == 3
MaxPageSize == 2
MaxTotal == 2
MaxLimit == 2
MaxCalls == 5

Ids == 1..NumIds
Totals == 0..MaxTotal

\* `total = None` of the source
None == -1

\* line 133: 'maxResults': 50
DefaultMaxResults == 50

VARIABLES
    \* the arguments of the invocation
    limit, overscan, page_size,
    \* the generator's locals
    start_at, item_count, issue_ids, total, done, force_restart,
    \* the ResultList being iterated: the records the for loop has not
    \* reached yet, and its .total
    results, results_total,
    \* where the generator stands
    pc,
    \* the server's backing collection (SpecColl), and what it held at the
    \* latest search_issues call
    coll, snapshot, mutated,
    \* whether the total the server reports has stopped changing
    settled,
    \* history: the records handed to the caller, the startAt of every
    \* search_issues call, the first-occurrence order of all records
    \* fetched and the set of their ids, the number of next() requests, the
    \* number of failed calls, the pass bookkeeping (the total its first page
    \* reported, whether a later page reported another one) and the number
    \* of restarts
    yielded, calls, expected, fetched, demand, errors, passFirst, passChanged,
    restarts,
    \* the query, the jira_kwargs argument, the option dict built from it
    \* (lines 132-136), and the mapping table of the DomainAligner given to
    \* JiraIssuesAPI (<<>>: none given)
    jql, jira_kwargs, default_jira_kwargs, domain_aligner,
    \* history: the arguments of every search_issues call, the self URL each
    \* yielded record carried when it was handed over, the number of
    \* warnings logged
    sent, yielded_self, warnings,
    \* get_issue_by_issue_key / get_issue_by_id: what the JIRA client answers
    \* to the one request of a lookup, which lookup was called, and how the
    \* call ended
    reply, lookup, outcome,
    \* DomainAligner: its _mappings, the resource handed to
    \* realign_api_domain (its type and its self), the self it had at first,
    \* and per application the self afterwards and the warnings logged;
    \* whether an application raised
    mappings, resource_type, resource_self, original_self, self_log, warn_log,
    align_error,
    \* CredentialsProvider / JiraClient: the JiraEnvironment, os.environ, the
    \* files on disk, what load_credentials() gave its caller, and the auth
    \* pair JiraClient.connect() used
    jira_environment, environ, files, loaded, client_auth,
    \* JiraClient: the connection held in _client (NoClient: None), the
    \* number of JIRA connections made so far (the n-th one is n), how many
    \* of them were made by the client property, what each access of the
    \* property returned, and the number of connection attempts that raised
    client_held, made, lazy, got, connect_errors,
    \* JiraUsersCache: the class-level CACHE, and per instance its
    \* _global_cache flag and its _cache; the number of lookups made, the
    \* latest lookup, and per cache and email the number of
    \* JiraUsersAPI.get_user_by_email calls made for it
    CACHE, global_cache, cache, lookups, last, email_calls

fetchVars == <<limit, overscan, page_size, start_at, item_count, issue_ids, total,
          done, force_restart, results, results_total, pc, coll, snapshot,
          mutated, settled, yielded, calls, expected, fetched, demand, errors,
          passFirst, passChanged, restarts, jql, jira_kwargs,
          default_jira_kwargs, domain_aligner, sent, yielded_self, warnings>>

lookupVars == <<reply, lookup, outcome>>

\* the variables of the other components
alignVars == <<mappings, resource_type, resource_self, original_self,
               self_log, warn_log, align_error>>

credsVars == <<jira_environment, environ, files, loaded, client_auth>>

clientVars == <<client_held, made, lazy, got, connect_errors>>

usersVars == <<CACHE, global_cache, cache, lookups, last, email_calls>>

others == <<lookupVars, alignVars, credsVars, clientVars, usersVars>>

vars == <<fetchVars, others>>

config == <<limit, overscan, page_size>>
locals == <<start_at, item_count, issue_ids, total, done, force_restart>>
server == <<coll, snapshot, mutated, settled>>
pass == <<passFirst, passChanged, restarts>>
request == <<jql, jira_kwargs, domain_aligner>>
aligned == <<yielded_self, warnings>>

\* ------------------------------------------------------------ helpers
Range(s) == {s[i] : i \in 1..Len(s)}

Min(a, b) == IF a < b THEN a ELSE b

IsInjective(s) == \A i, j \in 1..Len(s) : s[i] = s[j] => i = j

SeqsUpTo(S, n) == UNION {[1..k -> S] : k \in 0..n}

IsPrefix(s, t) == Len(s) <= Len(t) /\ SubSeq(t, 1, Len(s)) = s

\* s followed by the records of page whose id occurs neither in s nor
\* earlier in page
RECURSIVE FirstOccurrences(_, _)
FirstOccurrences(s, page) ==
    IF page = <<>> THEN s
    ELSE FirstOccurrences(IF Head(page) \in Range(s) THEN s
                          ELSE Append(s, Head(page)), Tail(page))

\* ------------------------------------------------------------ the code
\* (variant: the membership test is lost)
AlreadyYieldedNever(id, ids) == FALSE

\* line 173: if issue.id in issue_ids
AlreadyYielded(id, ids) == id \in ids

\* (variants: >= for >; the `limit and` test for "no limit" is lost)
OverLimitOffByOne(lim, cnt) == lim # 0 /\ cnt >= lim

OverLimitIgnoresZero(lim, cnt) == cnt > lim

\* line 178: if limit and item_count > limit  (item_count already incremented)
OverLimit(lim, cnt) == lim # 0 /\ cnt > lim

\* (variant: the `overscan and` test is lost)
AfterTotalAnyMode(tot, fr, ovs, t) ==
    IF tot = None THEN <<t, fr>>
    ELSE IF t # tot THEN <<tot, TRUE>>
    ELSE <<tot, fr>>

AfterTotalTracksLatest(tot, fr, ovs, t) ==
    IF tot = None THEN <<t, fr>>
    ELSE IF ovs /\ t # tot THEN <<t, TRUE>>
    ELSE <<tot, fr>>

AfterTotalFlagsEveryPage(tot, fr, ovs, t) ==
    IF tot = None THEN <<t, fr>>
    ELSE IF ovs THEN <<tot, TRUE>>
    ELSE <<tot, fr>>

\* lines 164-170: the new (total, force_restart) after a page reporting t
AfterTotal(tot, fr, ovs, t) ==
    IF tot = None THEN <<t, fr>>
    ELSE IF ovs /\ t # tot THEN <<tot, TRUE>>
    ELSE <<tot, fr>>

\* (variants: force_restart is not reset by the restart; the restart branch
\* is lost)
AfterPageKeepsFlag(sa, ps, tot, fr) ==
    IF sa + ps > tot
    THEN IF fr THEN <<0, TRUE, None, FALSE>>
         ELSE <<sa + ps, fr, tot, TRUE>>
    ELSE <<sa + ps, fr, tot, FALSE>>

AfterPageNeverRestarts(sa, ps, tot, fr) ==
    IF sa + ps > tot THEN <<sa + ps, fr, tot, TRUE>>
    ELSE <<sa + ps, fr, tot, FALSE>>

AfterPageKeepsTotal(sa, ps, tot, fr) ==
    IF sa + ps > tot
    THEN IF fr THEN <<0, FALSE, tot, FALSE>>
         ELSE <<sa + ps, fr, tot, TRUE>>
    ELSE <<sa + ps, fr, tot, FALSE>>

AfterPageStopsAtTotal(sa, ps, tot, fr) ==
    IF sa + ps >= tot
    THEN IF fr THEN <<0, FALSE, None, FALSE>>
         ELSE <<sa + ps, fr, tot, TRUE>>
    ELSE <<sa + ps, fr, tot, FALSE>>

\* lines 187-194: the new (start_at, force_restart, total, done) after a page
AfterPage(sa, ps, tot, fr) ==
    IF sa + ps > tot
    THEN IF fr THEN <<0, FALSE, None, FALSE>>
         ELSE <<sa + ps, fr, tot, TRUE>>
    ELSE <<sa + ps, fr, tot, FALSE>>

\* ---- jira_kwargs: dicts are functions from option names to values
EmptyKwargs == [k \in {} |-> 0]

\* dict.update
Update(d, u) ==
    [k \in DOMAIN d \cup DOMAIN u |-> IF k \in DOMAIN u THEN u[k] ELSE d[k]]

DefaultKwargsDefaultsWin(kw) == Update(kw, [maxResults |-> DefaultMaxResults])

\* lines 132-136 (None and {} are both falsy)
DefaultKwargs(kw) ==
    IF kw # EmptyKwargs THEN Update([maxResults |-> DefaultMaxResults], kw)
    ELSE [maxResults |-> DefaultMaxResults]

\* ---- DomainAligner (src/jira_client/domain_alignment.py).  A string is
\* the sequence of its pieces, a mapping table the sequence of its
\* <<incorrect host, correct host>> items in dict order.
\* `sub in s`
Contains(s, sub) ==
    \E i \in 0..(Len(s) - Len(sub)) : SubSeq(s, i + 1, i + Len(sub)) = sub

\* s.replace(old, new): every occurrence, from the left, none overlapping;
\* an empty old matches before every piece and at the end
RECURSIVE Replace(_, _, _)
Replace(s, old, new) ==
    IF old = <<>>
    THEN IF s = <<>> THEN new
         ELSE new \o <<Head(s)>> \o Replace(Tail(s), old, new)
    ELSE IF Len(s) < Len(old) THEN s
    ELSE IF SubSeq(s, 1, Len(old)) = old
         THEN new \o Replace(SubSeq(s, Len(old) + 1, Len(s)), old, new)
         ELSE <<Head(s)>> \o Replace(Tail(s), old, new)

IsAlignedNever(table, resource_uri) == FALSE

\* lines 78-83
IsAligned(table, resource_uri) ==
    \E i \in 1..Len(table) : Contains(resource_uri, table[i][2])

\* lines 85-95: <<the uri returned, the number of warnings logged>>
GetAlignedUri(table, resource_uri) ==
    LET hits == {i \in 1..Len(table) : Contains(resource_uri, table[i][1])}
    IN  IF hits = {} THEN <<resource_uri, 1>>
        ELSE LET i == CHOOSE h \in hits : \A g \in hits : h <= g
             IN  <<Replace(resource_uri, table[i][1], table[i][2]), 0>>

RealignApiDomainStrict(table, has_self, resource_uri) ==
    IF ~has_self THEN <<resource_uri, 0, TRUE>>
    ELSE IF IsAligned(table, resource_uri) THEN <<resource_uri, 0, FALSE>>
    ELSE IF GetAlignedUri(table, resource_uri)[2] > 0
         THEN <<resource_uri, 1, TRUE>>
         ELSE GetAlignedUri(table, resource_uri) \o <<FALSE>>

\* lines 50-76: <<resource.self afterwards, the number of warnings logged,
\* whether RuntimeError is raised (a resource without self)>>
RealignApiDomain(table, has_self, resource_uri) ==
    IF ~has_self THEN <<resource_uri, 0, TRUE>>
    ELSE IF IsAligned(table, resource_uri) THEN <<resource_uri, 0, FALSE>>
    ELSE GetAlignedUri(table, resource_uri) \o <<FALSE>>

\* lines 18-28, with enums.py lines 5-7
DEFAULT_MAPPINGS ==
    << << <<"jira", "-dev", ".example.com">>,
          <<"jira", "rest", "-dev", ".example.com">> >>,
       << <<"jira", "-stage", ".example.com">>,
          <<"jira", "rest", "-stage", ".example.com">> >>,
       << <<"jira", ".example.com">>,
          <<"jira", "rest", ".example.com">> >> >>

\* JiraIssuesAPI(client): domain_aligner = None
NoAligner == <<>>

\* line 31: DomainAligner(given)._mappings
MappingsOf(given) == IF given # <<>> THEN given ELSE DEFAULT_MAPPINGS

\* The self URL the server gives record id: on a mapped incorrect host, on
\* a correct host, or on a host the table does not know.
SelfOf(id) ==
    CASE id % 3 = 1 -> <<"https://", "jira", "-dev", ".example.com", "/issue">>
      [] id % 3 = 2 -> <<"https://", "jira", "rest", ".example.com", "/issue">>
      [] OTHER -> <<"https://", "issues", ".example.org", "/issue">>

\* issues_api.py lines 182-183: <<issue.self afterwards, warnings logged,
\* whether the aligner raised>>
AfterAligner(aligner, id) ==
    IF aligner # NoAligner THEN RealignApiDomain(aligner, TRUE, SelfOf(id))
    ELSE <<SelfOf(id), 0, FALSE>>

\* ---- errors.py.  JIRAError.text is the sequence of its pieces.
MaxTextLen == 3
Pieces == {"An issue with key", "'X'", "does not exist",
           "Issue Does Not Exist", "Forbidden"}
Texts == SeqsUpTo(Pieces, MaxTextLen)

is_issue_not_found_error_either(text) ==
    Contains(text, <<"An issue with key">>)
    \/ Contains(text, <<"does not exist">>)

\* lines 12-13
is_issue_not_found_error(text) ==
    Contains(text, <<"An issue with key">>)
    /\ Contains(text, <<"does not exist">>)

is_issue_does_not_exist_error_any_case(text) ==
    Contains(text, <<"Issue Does Not Exist">>)
    \/ Contains(text, <<"does not exist">>)

\* lines 16-17
is_issue_does_not_exist_error(text) ==
    Contains(text, <<"Issue Does Not Exist">>)

\* ---- the lookups (issues_api.py lines 55-103)
\* what the JIRA client answers: a ResultList (search_issues), an Issue
\* (issue) or a JIRAError
Answer(kind, items, text) == [kind |-> kind, items |-> items, text |-> text]
Replies ==
    {Answer("ResultList", items, <<>>) : items \in SeqsUpTo(Ids, MaxPageSize)}
    \cup {Answer("Issue", <<id>>, <<>>) : id \in Ids}
    \cup {Answer("JIRAError", <<>>, text) : text \in Texts}
NoReply == Answer("none", <<>>, <<>>)

\* how a call ends: `return value` (None, or the record id whose self is
\* slf) or `raise` of the error with that text
Return(value, slf) ==
    [kind |-> "return", value |-> value, self |-> slf, text |-> <<>>]
Raise(text) == [kind |-> "raise", value |-> None, self |-> <<>>, text |-> text]
Idle == [kind |-> "idle", value |-> None, self |-> <<>>, text |-> <<>>]

\* lines 76-79, 95-98: the record found is realigned and returned (an error
\* of the aligner is no JIRAError and leaves the lookup as it is)
Found(id, aligner) ==
    IF AfterAligner(aligner, id)[3] THEN Raise(<<"RuntimeError">>)
    ELSE Return(id, AfterAligner(aligner, id)[1])

\* lines 61-84
get_issue_by_issue_key(r, aligner) ==
    IF r.kind = "JIRAError"
    THEN IF is_issue_not_found_error(r.text) THEN Return(None, <<>>)
         ELSE Raise(r.text)
    ELSE IF Len(r.items) > 0 THEN Found(r.items[1], aligner)
         ELSE Return(None, <<>>)

\* lines 93-103
get_issue_by_id(r, aligner) ==
    IF r.kind = "JIRAError"
    THEN IF is_issue_does_not_exist_error(r.text) THEN Return(None, <<>>)
         ELSE Raise(r.text)
    ELSE Found(r.items[1], aligner)

\* ---- credentials.py.  A string (a path, a value of os.environ, the
\* content of a file) is the sequence of its pieces.
PROD_USER_PATH == <<"/srv/airflow/", "jira_vm_username">>
PROD_PASSWD_PATH == <<"/srv/airflow/", "jira_vm_password">>
DEV_USER_PATH(user) == <<"/home/", user, "/jira_user">>
DEV_PASSWD_PATH(user) == <<"/home/", user, "/jira_passwd">>
\* getpass.getuser()
User == "dev"
\* the files LOCAL_JIRA_USER / LOCAL_JIRA_PASS name when they are set
LocalUserPath == <<"/path/to/", "user">>
LocalPassPath == <<"/path/to/", "pass">>
Paths == {PROD_USER_PATH, PROD_PASSWD_PATH, DEV_USER_PATH(User),
          DEV_PASSWD_PATH(User), LocalUserPath, LocalPassPath}

NoFile == [exists |-> FALSE, content |-> <<>>]
File(content) == [exists |-> TRUE, content |-> content]

Whitespace == {" ", "\n"}

RECURSIVE LStrip(_)
LStrip(str) ==
    IF str # <<>> /\ Head(str) \in Whitespace THEN LStrip(Tail(str)) ELSE str

RECURSIVE RStrip(_)
RStrip(str) ==
    IF str # <<>> /\ str[Len(str)] \in Whitespace
    THEN RStrip(SubSeq(str, 1, Len(str) - 1))
    ELSE str

\* str.strip()
Strip(str) == RStrip(LStrip(str))

\* what load_credentials gives its caller: a Credentials object, None, or
\* the FileNotFoundError of open()
Credentials(username, password, alias) ==
    [kind |-> "Credentials", username |-> username, password |-> password,
     alias |-> alias]
NoCredentials ==
    [kind |-> "None", username |-> <<>>, password |-> <<>>, alias |-> ""]
FileNotFoundError ==
    [kind |-> "FileNotFoundError", username |-> <<>>, password |-> <<>>,
     alias |-> ""]
NotLoaded ==
    [kind |-> "not called", username |-> <<>>, password |-> <<>>,
     alias |-> ""]

\* lines 93-102 with _read_file, lines 158-161
load_from_files(fs, username_path, password_path, alias) ==
    IF ~fs[username_path].exists \/ ~fs[password_path].exists
    THEN FileNotFoundError
    ELSE Credentials(Strip(fs[username_path].content),
                     Strip(fs[password_path].content), alias)

\* lines 104-111
load_production(fs) ==
    load_from_files(fs, PROD_USER_PATH, PROD_PASSWD_PATH, "Production")

\* lines 113-127
load_dev(fs, user) ==
    IF ~fs[DEV_USER_PATH(user)].exists THEN NoCredentials
    ELSE IF ~fs[DEV_PASSWD_PATH(user)].exists THEN NoCredentials
    ELSE load_from_files(fs, DEV_USER_PATH(user), DEV_PASSWD_PATH(user),
                         "OneFlow, user")

\* lines 129-142
load_env(env) ==
    IF env["ENV_JIRA_USER"] = <<>> THEN NoCredentials
    ELSE IF env["ENV_JIRA_PASS"] = <<>> THEN NoCredentials
    ELSE Credentials(env["ENV_JIRA_USER"], env["ENV_JIRA_PASS"],
                     "Local Env Vars")

\* lines 144-156
load_local_dev(env, fs) ==
    IF env["LOCAL_JIRA_USER"] = <<>> THEN NoCredentials
    ELSE IF env["LOCAL_JIRA_PASS"] = <<>> THEN NoCredentials
    ELSE load_from_files(fs, env["LOCAL_JIRA_USER"], env["LOCAL_JIRA_PASS"],
                         "Local Cred Files")

load_credentials_production_last(jenv, env, fs, user) ==
    IF load_local_dev(env, fs).kind # "None" THEN load_local_dev(env, fs)
    ELSE IF load_env(env).kind # "None" THEN load_env(env)
    ELSE IF load_dev(fs, user).kind # "None" THEN load_dev(fs, user)
    ELSE IF jenv = "Prod" THEN load_production(fs)
    ELSE NoCredentials

\* lines 67-91 (a Credentials object is truthy whatever it holds; an
\* exception leaves the method at once)
load_credentials(jenv, env, fs, user) ==
    IF jenv = "Prod" THEN load_production(fs)
    ELSE IF load_local_dev(env, fs).kind # "None" THEN load_local_dev(env, fs)
    ELSE IF load_env(env).kind # "None" THEN load_env(env)
    ELSE IF load_dev(fs, user).kind # "None" THEN load_dev(fs, user)
    ELSE NoCredentials

\* jira_client_v2.py lines 74-86: the auth pair, or the exception of
\* load_credentials
Auth(username, password) ==
    [kind |-> "auth", username |-> username, password |-> password]
AuthRaised == [kind |-> "raise", username |-> <<>>, password |-> <<>>]
NotConnected == [kind |-> "not connected", username |-> <<>>,
                 password |-> <<>>]

client_auth_of(creds) ==
    IF creds.kind = "FileNotFoundError" THEN AuthRaised
    ELSE IF creds.kind = "Credentials"
         THEN Auth(creds.username, creds.password)
         ELSE Auth(<<>>, <<>>)

\* ---- JiraClient.client (jira_client_v2.py lines 96-104)
NoClient == 0

client_always_connects(held, fresh) == <<fresh, fresh, TRUE>>

\* the client property, fresh being the connection connect() makes when it
\* is called: <<_client afterwards, the value returned, whether connect()
\* was called>>
client(held, fresh) ==
    IF held = NoClient THEN <<fresh, fresh, TRUE>>
    ELSE <<held, held, FALSE>>

\* ---- users_api.py.  A dict is the sequence of its items in insertion
\* order; a User is its key and its emailAddress, NoUser stands for None.
Emails == {"a@example.com", "b@example.com"}
Keys == {"jdoe", "asmith"}
Users == [key : Keys, emailAddress : Emails]
NoUser == [key |-> "", emailAddress |-> ""]

\* `k in d`
Has(d, k) == \E n \in 1..Len(d) : d[n][1] = k

\* d[k]
Get(d, k) == d[CHOOSE n \in 1..Len(d) : d[n][1] = k][2]

\* d[k] = v
Put(d, k, v) ==
    IF Has(d, k) THEN [n \in 1..Len(d) |-> IF d[n][1] = k THEN <<k, v>>
                                           ELSE d[n]]
    ELSE Append(d, <<k, v>>)

\* what the JIRA client answers to user(key) / search_users(email): a user
\* (alone in the result list), nothing, or a JIRAError
UserReply(kind, user) == [kind |-> kind, user |-> user]
NoUserReply == UserReply("none", NoUser)

api_get_user_by_key_raises(r) ==
    IF r.kind = "JIRAError" THEN <<"raise", NoUser>> ELSE <<"return", r.user>>

\* lines 19-24: <<"return", the value>>
api_get_user_by_key(r) ==
    IF r.kind = "JIRAError" THEN <<"return", NoUser>> ELSE <<"return", r.user>>

\* lines 26-39: <<"return", the value>> or <<"raise", ...>> (no try)
api_get_user_by_email(r) ==
    IF r.kind = "JIRAError" THEN <<"raise", NoUser>>
    ELSE IF r.kind = "found" THEN <<"return", r.user>>
    ELSE <<"return", NoUser>>

\* the latest lookup: the instance, the method and its argument, whether
\* the users API was called and what the JIRA client answered, how the
\* lookup ended (kind, value), and whether the lookup before it was the same
Lookup(inst, op, arg, called, r, kind, value, again) ==
    [inst |-> inst, op |-> op, arg |-> arg, called |-> called, reply |-> r,
     kind |-> kind, value |-> value, again |-> again]
NoLookup == Lookup(0, "none", "", FALSE, NoUserReply, "none", NoUser, FALSE)

\* the first cached user with that key, lines 57-59 and 68-70
CachedByKey(d, key) ==
    LET hits == {n \in 1..Len(d) : d[n][2] # NoUser /\ d[n][2].key = key}
    IN  IF hits = {} THEN NoUser
        ELSE d[CHOOSE n \in hits : \A m \in hits : n <= m][2]

\* lines 52-77 on the dict d the instance uses:
\* <<d afterwards, "return" or "raise", the value, whether the API was called>>
cache_get_user_by_key(d, key, r) ==
    IF key = "" THEN <<d, "return", NoUser, FALSE>>
    ELSE IF CachedByKey(d, key) # NoUser
         THEN <<d, "return", CachedByKey(d, key), FALSE>>
    ELSE IF api_get_user_by_key(r)[1] = "raise"
         THEN <<d, "raise", NoUser, TRUE>>
    ELSE IF api_get_user_by_key(r)[2] # NoUser
         THEN <<Put(d, api_get_user_by_key(r)[2].emailAddress,
                    api_get_user_by_key(r)[2]),
                "return", api_get_user_by_key(r)[2], TRUE>>
    ELSE <<d, "return", NoUser, TRUE>>

cache_get_user_by_email_found_only(d, user_email, r) ==
    IF user_email = "" THEN <<d, "return", NoUser, FALSE>>
    ELSE IF Has(d, user_email) THEN <<d, "return", Get(d, user_email), FALSE>>
    ELSE IF api_get_user_by_email(r)[1] = "raise"
         THEN <<d, "raise", NoUser, TRUE>>
    ELSE IF api_get_user_by_email(r)[2] # NoUser
         THEN <<Put(d, user_email, api_get_user_by_email(r)[2]), "return",
                api_get_user_by_email(r)[2], TRUE>>
    ELSE <<d, "return", NoUser, TRUE>>

\* lines 79-101 on the dict d the instance uses
cache_get_user_by_email(d, user_email, r) ==
    IF user_email = "" THEN <<d, "return", NoUser, FALSE>>
    ELSE IF Has(d, user_email) THEN <<d, "return", Get(d, user_email), FALSE>>
    ELSE IF api_get_user_by_email(r)[1] = "raise"
         THEN <<d, "raise", NoUser, TRUE>>
    ELSE <<Put(d, user_email, api_get_user_by_email(r)[2]), "return",
           Get(Put(d, user_email, api_get_user_by_email(r)[2]), user_email),
           TRUE>>

UsesClassCacheAlways(flags, i) == TRUE

\* lines 56, 88: if self._global_cache
UsesClassCache(flags, i) == flags[i]

\* the server's page at offset sa of size ps over collection c
Slice(c, sa, ps) == SubSeq(c, sa + 1, Min(sa + ps, Len(c)))

\* ------------------------------------------------------------ Init
\* no lookup called
InitLookupRest ==
    /\ reply = NoReply
    /\ lookup = "none"
    /\ outcome = Idle

\* DomainAligner(), nothing realigned
InitAlignRest ==
    /\ mappings = MappingsOf(<<>>)
    /\ resource_type = "Resource"
    /\ resource_self = <<>>
    /\ original_self = <<>>
    /\ self_log = <<>>
    /\ warn_log = <<>>
    /\ align_error = FALSE

\* a Dev client on a machine without credentials, not connected
InitCredsRest ==
    /\ jira_environment = "Dev"
    /\ environ = [name \in {"LOCAL_JIRA_USER", "LOCAL_JIRA_PASS",
                             "ENV_JIRA_USER", "ENV_JIRA_PASS"} |-> <<>>]
    /\ files = [path \in Paths |-> NoFile]
    /\ loaded = NotLoaded
    /\ client_auth = NotConnected

\* JiraClient.__init__, lines 41-53
InitClientRest ==
    /\ client_held = NoClient
    /\ made = 0
    /\ lazy = 0
    /\ got = <<>>
    /\ connect_errors = 0

\* no JiraUsersCache created
InitUsersRest ==
    /\ CACHE = <<>>
    /\ global_cache = <<>>
    /\ cache = <<>>
    /\ lookups = 0
    /\ last = NoLookup
    /\ email_calls = <<>>

\* the other components at rest
InitOthers ==
    /\ InitLookupRest
    /\ InitAlignRest
    /\ InitCredsRest
    /\ InitClientRest
    /\ InitUsersRest

InitLocals ==
    /\ default_jira_kwargs = DefaultKwargs(jira_kwargs)
    /\ page_size = default_jira_kwargs["maxResults"]
    /\ start_at = 0
    /\ item_count = 0
    /\ issue_ids = {}
    /\ total = None
    /\ done = FALSE
    /\ force_restart = FALSE
    /\ results = <<>>
    /\ results_total = None
    /\ pc = "created"
    /\ yielded = <<>>
    /\ calls = <<>>
    /\ expected = <<>>
    /\ fetched = {}
    /\ demand = 0
    /\ errors = 0
    /\ passFirst = None
    /\ passChanged = FALSE
    /\ restarts = 0
    /\ sent = <<>>
    /\ yielded_self = <<>>
    /\ warnings = 0

\* no fetch_all invoked
InitFetchRest ==
    /\ limit = 0
    /\ overscan = FALSE
    /\ jql = "SOME JQL STATEMENT"
    /\ jira_kwargs = EmptyKwargs
    /\ InitLocals
    /\ coll = <<>>
    /\ snapshot = <<>>
    /\ mutated = FALSE
    /\ settled = FALSE

\* fetch_all(jql, limit, {'maxResults': n}, overscan) on a JiraIssuesAPI
\* without aligner
InitEngine ==
    /\ limit \in 0..MaxLimit
    /\ overscan \in BOOLEAN
    /\ jql = "SOME JQL STATEMENT"
    /\ jira_kwargs \in {[maxResults |-> n] : n \in 1..MaxPageSize}
    /\ domain_aligner = NoAligner
    /\ InitLocals
    /\ InitOthers

Init ==
    /\ InitEngine
    /\ coll = <<>>
    /\ snapshot = <<>>
    /\ mutated = FALSE
    /\ settled = FALSE

\* ------------------------------------------------------------ the caller
\* The first next(): the generator body starts, lines 132-145.
Start ==
    /\ pc = "created"
    /\ start_at' = 0
    /\ item_count' = 0
    /\ issue_ids' = {}
    /\ total' = None
    /\ done' = FALSE
    /\ force_restart' = FALSE
    /\ pc' = "fetch"
    /\ demand' = demand + 1
    /\ default_jira_kwargs' = DefaultKwargs(jira_kwargs)
    /\ page_size' = default_jira_kwargs'["maxResults"]
    /\ UNCHANGED <<others, request, sent, aligned>>
    /\ UNCHANGED <<limit, overscan, server, pass, results, results_total,
                   yielded, calls, expected, fetched, errors>>

\* A later next(): the generator resumes after the yield of line 185.
Resume ==
    /\ pc = "yielded"
    /\ pc' = "page"
    /\ demand' = demand + 1
    /\ UNCHANGED <<others, request, default_jira_kwargs, sent, aligned>>
    /\ UNCHANGED <<config, locals, server, pass, results, results_total,
                   yielded, calls, expected, fetched, errors>>

\* The caller stops consuming: the suspended generator is dropped; none of
\* its code runs again.
Close ==
    /\ pc \in {"created", "yielded"}
    /\ pc' = "closed"
    /\ UNCHANGED <<others, request, default_jira_kwargs, sent, aligned>>
    /\ UNCHANGED <<config, locals, server, pass, results, results_total,
                   yielded, calls, expected, fetched, demand, errors>>

\* next() on a generator that returned or raised: StopIteration, and
\* nothing else happens.
NextAfterEnd ==
    /\ pc \in {"done", "failed"}
    /\ UNCHANGED vars

\* ------------------------------------------------------------ the engine
\* lines 146-170: search_issues answers with the records page and total t
SearchIssues(page, t) ==
    /\ pc = "fetch"
    /\ ~done
    /\ Len(calls) < MaxCalls
    /\ calls' = Append(calls, start_at)
    /\ sent' = Append(sent, [jql |-> jql, startAt |-> start_at,
                              kwargs |-> default_jira_kwargs])
    /\ results' = page
    /\ results_total' = t
    /\ total' = AfterTotal(total, force_restart, overscan, t)[1]
    /\ force_restart' = AfterTotal(total, force_restart, overscan, t)[2]
    /\ pc' = "page"
    /\ expected' = FirstOccurrences(expected, page)
    /\ fetched' = fetched \cup Range(page)
    /\ passFirst' = IF start_at = 0 THEN t ELSE passFirst
    /\ passChanged' = IF start_at = 0 THEN FALSE
                      ELSE passChanged \/ t # passFirst
    /\ snapshot' = coll
    /\ UNCHANGED <<others, request, default_jira_kwargs, aligned>>
    /\ UNCHANGED <<config, start_at, item_count, issue_ids, done, coll,
                   mutated, settled, yielded, demand, errors, restarts>>

\* (variant: the failed call is swallowed and the page requested again)
SearchIssuesRetried ==
    /\ pc = "fetch"
    /\ ~done
    /\ Len(calls) < MaxCalls
    /\ calls' = Append(calls, start_at)
    /\ errors' = errors + 1
    /\ pc' = "fetch"
    /\ UNCHANGED <<others, request, default_jira_kwargs, sent, aligned>>
    /\ UNCHANGED <<config, locals, server, pass, results, results_total,
                   yielded, expected, fetched, demand>>

\* line 154: search_issues raises; nothing catches it, the exception leaves
\* the generator
SearchIssuesFails ==
    /\ pc = "fetch"
    /\ ~done
    /\ Len(calls) < MaxCalls
    /\ calls' = Append(calls, start_at)
    /\ sent' = Append(sent, [jql |-> jql, startAt |-> start_at,
                              kwargs |-> default_jira_kwargs])
    /\ errors' = errors + 1
    /\ pc' = "failed"
    /\ UNCHANGED <<others, request, default_jira_kwargs, aligned>>
    /\ UNCHANGED <<config, locals, server, pass, results, results_total,
                   yielded, expected, fetched, demand>>

\* (variant: `continue` is taken for every record of a page that follows a
\* yielded one)
SkipIssueAny ==
    /\ pc = "page"
    /\ results # <<>>
    /\ AlreadyYielded(Head(results), issue_ids) \/ item_count > 0
    /\ results' = Tail(results)
    /\ UNCHANGED <<others, request, default_jira_kwargs, sent, aligned>>
    /\ UNCHANGED <<config, locals, server, pass, results_total, pc, yielded,
                   calls, expected, fetched, demand, errors>>

\* lines 172-175: the next record was yielded before
SkipIssue ==
    /\ pc = "page"
    /\ results # <<>>
    /\ AlreadyYielded(Head(results), issue_ids)
    /\ results' = Tail(results)
    /\ UNCHANGED <<others, request, default_jira_kwargs, sent, aligned>>
    /\ UNCHANGED <<config, locals, server, pass, results_total, pc, yielded,
                   calls, expected, fetched, demand, errors>>

\* (variant: the limit is tested before the record is counted)
LimitReturnBeforeCount ==
    /\ pc = "page"
    /\ results # <<>>
    /\ ~AlreadyYielded(Head(results), issue_ids)
    /\ OverLimit(limit, item_count + 1)
    /\ pc' = "done"
    /\ UNCHANGED <<others, request, default_jira_kwargs, sent, aligned>>
    /\ UNCHANGED <<config, locals, server, pass, results, results_total,
                   yielded, calls, expected, fetched, demand, errors>>

\* lines 177-179: a new record beyond the limit: return
LimitReturn ==
    /\ pc = "page"
    /\ results # <<>>
    /\ ~AlreadyYielded(Head(results), issue_ids)
    /\ OverLimit(limit, item_count + 1)
    /\ item_count' = item_count + 1
    /\ pc' = "done"
    /\ UNCHANGED <<others, request, default_jira_kwargs, sent, aligned>>
    /\ UNCHANGED <<config, start_at, issue_ids, total, done, force_restart,
                   server, pass, results, results_total, yielded, calls,
                   expected, fetched, demand, errors>>

\* (variant: the records are collected without suspending, as a function
\* that builds a list would)
YieldIssueEager ==
    /\ pc = "page"
    /\ results # <<>>
    /\ ~AlreadyYielded(Head(results), issue_ids)
    /\ ~OverLimit(limit, item_count + 1)
    /\ item_count' = item_count + 1
    /\ issue_ids' = issue_ids \cup {Head(results)}
    /\ LET after == AfterAligner(domain_aligner, Head(results))
       IN  /\ warnings' = warnings + after[2]
           /\ IF after[3]
              THEN /\ pc' = "failed"
                   /\ UNCHANGED <<yielded, yielded_self, results>>
              ELSE /\ yielded' = Append(yielded, Head(results))
                   /\ yielded_self' = Append(yielded_self, after[1])
                   /\ results' = Tail(results)
                   /\ pc' = "page"
    /\ UNCHANGED <<others, request, default_jira_kwargs, sent>>
    /\ UNCHANGED <<config, start_at, total, done, force_restart, server, pass,
                   results_total, calls, expected, fetched, demand, errors>>

\* lines 177-185: a new record within the limit: yield it
YieldIssue ==
    /\ pc = "page"
    /\ results # <<>>
    /\ ~AlreadyYielded(Head(results), issue_ids)
    /\ ~OverLimit(limit, item_count + 1)
    /\ item_count' = item_count + 1
    /\ issue_ids' = issue_ids \cup {Head(results)}
    /\ LET after == AfterAligner(domain_aligner, Head(results))
       IN  /\ warnings' = warnings + after[2]
           /\ IF after[3]
              THEN /\ pc' = "failed"
                   /\ UNCHANGED <<yielded, yielded_self, results>>
              ELSE /\ yielded' = Append(yielded, Head(results))
                   /\ yielded_self' = Append(yielded_self, after[1])
                   /\ results' = Tail(results)
                   /\ pc' = "yielded"
    /\ UNCHANGED <<others, request, default_jira_kwargs, sent>>
    /\ UNCHANGED <<config, start_at, total, done, force_restart, server, pass,
                   results_total, calls, expected, fetched, demand, errors>>

\* lines 187-196: the for loop is exhausted
EndOfPage ==
    /\ pc = "page"
    /\ results = <<>>
    /\ start_at' = AfterPage(start_at, page_size, total, force_restart)[1]
    /\ force_restart' = AfterPage(start_at, page_size, total, force_restart)[2]
    /\ total' = AfterPage(start_at, page_size, total, force_restart)[3]
    /\ done' = AfterPage(start_at, page_size, total, force_restart)[4]
    /\ pc' = IF done' THEN "done" ELSE "fetch"
    /\ restarts' = IF total' = None THEN Min(restarts + 1, MaxCalls)
                   ELSE restarts
    /\ UNCHANGED <<others, request, default_jira_kwargs, sent, aligned>>
    /\ UNCHANGED <<config, item_count, issue_ids, server, passFirst,
                   passChanged, results, results_total, yielded, calls,
                   expected, fetched, demand, errors>>

Engine ==
    \/ Start
    \/ Resume
    \/ Close
    \/ NextAfterEnd
    \/ SearchIssuesFails
    \/ SkipIssue
    \/ LimitReturn
    \/ YieldIssue
    \/ EndOfPage

\* ------------------------------------------------------------ the servers
\* A mock endpoint: any page of at most page_size (and MaxPageSize) records,
\* any total.
MockSearch ==
    \E page \in SeqsUpTo(Ids, Min(page_size, MaxPageSize)), t \in Totals :
        SearchIssues(page, t)

Next == Engine \/ MockSearch

Spec == Init /\ [][Next]_vars

\* A backing collection of records with distinct ids, paged faithfully.
InitColl ==
    /\ InitEngine
    /\ coll \in {c \in SeqsUpTo(Ids, NumIds) : IsInjective(c)}
    /\ snapshot = <<>>
    /\ mutated = FALSE
    /\ settled = FALSE

CollSearch == SearchIssues(Slice(coll, start_at, page_size), Len(coll))

\* A record is created while the generator runs (an insertion before its
\* first call is a different initial collection, one after its end is not
\* observed).
Insert ==
    /\ pc \in {"fetch", "page", "yielded"}
    /\ \E id \in Ids \ Range(coll), k \in 0..Len(coll) :
           coll' = SubSeq(coll, 1, k) \o <<id>> \o SubSeq(coll, k + 1, Len(coll))
    /\ mutated' = TRUE
    /\ UNCHANGED <<others, request, default_jira_kwargs, sent, aligned>>
    /\ UNCHANGED <<config, locals, pass, snapshot, settled, results,
                   results_total, pc, yielded, calls, expected, fetched,
                   demand, errors>>

NextColl == Engine \/ CollSearch \/ Insert

SpecColl == InitColl /\ [][NextColl]_vars

\* ------------------------------------------------------------ a full walk
\* fetch_all without overscan, consumed to the end: the caller keeps asking
\* for the next record, every search_issues call is answered, and the
\* generator runs on whenever it is resumed.
InitLive ==
    /\ limit \in {0, 1}
    /\ overscan = FALSE
    /\ jql = "SOME JQL STATEMENT"
    /\ jira_kwargs \in {[maxResults |-> n] : n \in 1..MaxPageSize}
    /\ domain_aligner = NoAligner
    /\ InitLocals
    /\ InitOthers
    /\ coll = <<>>
    /\ snapshot = <<>>
    /\ mutated = FALSE
    /\ settled = FALSE

SpecLive ==
    /\ InitLive
    /\ [][Next]_vars
    /\ WF_vars(Start)
    /\ WF_vars(Resume)
    /\ WF_vars(MockSearch)
    /\ WF_vars(SkipIssue)
    /\ WF_vars(LimitReturn)
    /\ WF_vars(YieldIssue)
    /\ WF_vars(EndOfPage)

\* ------------------------------------------------------------ overscan
\* fetch_all with overscan, consumed to the end, against a server whose
\* total changes at will until, at some moment, it stops changing (tickets
\* are no longer created): from then on every answer reports the total of
\* the answer before it.
InitSettle ==
    /\ limit \in {0, 1}
    /\ overscan = TRUE
    /\ jql = "SOME JQL STATEMENT"
    /\ jira_kwargs \in {[maxResults |-> n] : n \in 1..MaxPageSize}
    /\ domain_aligner = NoAligner
    /\ InitLocals
    /\ InitOthers
    /\ coll = <<>>
    /\ snapshot = <<>>
    /\ mutated = FALSE
    /\ settled = FALSE

Settle ==
    /\ ~settled
    /\ settled' = TRUE
    /\ UNCHANGED <<others, request, default_jira_kwargs, sent, aligned>>
    /\ UNCHANGED <<config, locals, pass, coll, snapshot, mutated, results,
                   results_total, pc, yielded, calls, expected, fetched,
                   demand, errors>>

SettlingSearch ==
    \E page \in SeqsUpTo(Ids, Min(page_size, MaxPageSize)), t \in Totals :
        /\ (settled /\ results_total # None) => t = results_total
        /\ SearchIssues(page, t)

NextSettle == Engine \/ SettlingSearch \/ Settle

SpecSettle ==
    /\ InitSettle
    /\ [][NextSettle]_vars
    /\ WF_vars(Start)
    /\ WF_vars(Resume)
    /\ WF_vars(SettlingSearch)
    /\ WF_vars(SkipIssue)
    /\ WF_vars(LimitReturn)
    /\ WF_vars(YieldIssue)
    /\ WF_vars(EndOfPage)

\* ------------------------------------------------------------ arguments
\* fetch_all with the queries and option dicts of the callers: no
\* jira_kwargs, a page size, a page size with a pass-through option, a
\* pass-through option alone.
Queries == {"SOME JQL STATEMENT", "labels = \"label\" ORDER BY labels"}
KwargsGiven ==
    {EmptyKwargs,
     [maxResults |-> 1],
     [maxResults |-> MaxPageSize, fields |-> "summary"],
     [expand |-> "changelog"]}

InitArgs ==
    /\ limit \in {0, 1}
    /\ overscan \in BOOLEAN
    /\ jql \in Queries
    /\ jira_kwargs \in KwargsGiven
    /\ domain_aligner = NoAligner
    /\ InitLocals
    /\ InitOthers
    /\ coll = <<>>
    /\ snapshot = <<>>
    /\ mutated = FALSE
    /\ settled = FALSE

SpecArgs == InitArgs /\ [][Next]_vars

\* ------------------------------------------------------------ fetch, aligned
\* fetch_all on a JiraIssuesAPI with a DomainAligner over the default table;
\* the records' self URLs are on a mapped host, on a correct host, or on a
\* host the table does not know (SelfOf).
InitAligned ==
    /\ limit \in {0, 1}
    /\ overscan \in BOOLEAN
    /\ jql = "SOME JQL STATEMENT"
    /\ jira_kwargs \in {[maxResults |-> n] : n \in 1..MaxPageSize}
    /\ domain_aligner = MappingsOf(<<>>)
    /\ InitLocals
    /\ InitOthers
    /\ coll = <<>>
    /\ snapshot = <<>>
    /\ mutated = FALSE
    /\ settled = FALSE

SpecAligned == InitAligned /\ [][Next]_vars

\* ------------------------------------------------------------ aligner
\* A DomainAligner over any table of up to two entries with hosts of up to
\* two letters (the empty table gives the default one), applied again and
\* again to one resource.
MaxUrlLen == 3
MaxApplications == 3
Letters == {"a", "b"}
Hosts == SeqsUpTo(Letters, 2)
Tables ==
    {<<>>}
    \cup {<<<<k, v>>>> : k \in Hosts, v \in Hosts}
    \cup {t \in {<<<<k1, v1>>, <<k2, v2>>>> : k1, v1, k2, v2 \in Hosts} :
             t[1][1] # t[2][1]}
Urls == SeqsUpTo(Letters, MaxUrlLen) \cup {SelfOf(id) : id \in Ids}

InitAlign ==
    /\ mappings \in {MappingsOf(given) : given \in Tables}
    /\ resource_type \in {"Resource", "dict", "dict without self"}
    /\ resource_self \in IF resource_type = "dict without self" THEN {<<>>}
                          ELSE Urls
    /\ original_self = resource_self
    /\ self_log = <<>>
    /\ warn_log = <<>>
    /\ align_error = FALSE
    /\ domain_aligner = NoAligner
    /\ InitFetchRest
    /\ InitLookupRest
    /\ InitCredsRest
    /\ InitClientRest
    /\ InitUsersRest

\* lines 50-76
Realign ==
    /\ ~align_error
    /\ Len(self_log) < MaxApplications
    /\ LET after == RealignApiDomain(mappings,
                                      resource_type # "dict without self",
                                      resource_self)
       IN  IF after[3]
           THEN /\ align_error' = TRUE
                /\ UNCHANGED <<resource_self, self_log, warn_log>>
           ELSE /\ resource_self' = after[1]
                /\ self_log' = Append(self_log, after[1])
                /\ warn_log' = Append(warn_log, after[2])
                /\ UNCHANGED align_error
    /\ UNCHANGED <<fetchVars, lookupVars, credsVars, clientVars, usersVars,
                   mappings, resource_type, original_self>>

NextAlign == Realign

SpecAlign == InitAlign /\ [][NextAlign]_vars

\* ------------------------------------------------------------ credentials
\* Any environment, any setting of the four variables, every file missing,
\* blank or filled; load_credentials() called directly, and by
\* JiraClient.connect().
FileStates == {NoFile, File(<<"\n">>), File(<<"secret", "\n">>)}

InitCreds ==
    /\ jira_environment \in {"Dev", "Staging", "Prod"}
    /\ environ \in {[LOCAL_JIRA_USER |-> lu, LOCAL_JIRA_PASS |-> lp,
                      ENV_JIRA_USER |-> eu, ENV_JIRA_PASS |-> ep] :
                        lu \in {<<>>, LocalUserPath},
                        lp \in {<<>>, LocalPassPath},
                        eu \in {<<>>, <<"test_user">>},
                        ep \in {<<>>, <<"test_password">>}}
    /\ files \in [Paths -> FileStates]
    /\ loaded = NotLoaded
    /\ client_auth = NotConnected
    /\ domain_aligner = NoAligner
    /\ InitFetchRest
    /\ InitLookupRest
    /\ InitAlignRest
    /\ InitClientRest
    /\ InitUsersRest

\* provider.load_credentials()
LoadCredentials ==
    /\ loaded = NotLoaded
    /\ loaded' = load_credentials(jira_environment, environ, files, User)
    /\ UNCHANGED <<fetchVars, lookupVars, alignVars, clientVars, usersVars,
                   jira_environment, environ, files, client_auth>>

\* JiraClient.connect(), jira_client_v2.py lines 55-65: JIRA(...,
\* auth=self._client_auth, ...)
Connect ==
    /\ client_auth = NotConnected
    /\ client_auth' = client_auth_of(load_credentials(jira_environment,
                                                       environ, files, User))
    /\ UNCHANGED <<fetchVars, lookupVars, alignVars, clientVars, usersVars,
                   jira_environment, environ, files, loaded>>

NextCreds == LoadCredentials \/ Connect

SpecCreds == InitCreds /\ [][NextCreds]_vars

\* ------------------------------------------------------------ client
\* A JiraClient whose client property is read and whose connect() is
\* called, in any order; JIRA(...) returns a new connection or raises.
MaxConnections == 3
MaxAccesses == 3

InitClient ==
    /\ InitClientRest
    /\ domain_aligner = NoAligner
    /\ InitFetchRest
    /\ InitLookupRest
    /\ InitAlignRest
    /\ InitCredsRest
    /\ InitUsersRest

\* lines 96-104, connect() succeeding when it is called
ClientProperty ==
    /\ Len(got) < MaxAccesses
    /\ client(client_held, made + 1)[3] => made < MaxConnections
    /\ client_held' = client(client_held, made + 1)[1]
    /\ got' = Append(got, client(client_held, made + 1)[2])
    /\ made' = IF client(client_held, made + 1)[3] THEN made + 1 ELSE made
    /\ lazy' = IF client(client_held, made + 1)[3] THEN lazy + 1 ELSE lazy
    /\ UNCHANGED <<fetchVars, lookupVars, alignVars, credsVars, usersVars,
                   connect_errors>>

\* lines 96-104, connect() raising: the exception leaves the property
ClientPropertyFails ==
    /\ client(client_held, made + 1)[3]
    /\ connect_errors < MaxConnections
    /\ connect_errors' = connect_errors + 1
    /\ UNCHANGED <<fetchVars, lookupVars, alignVars, credsVars, usersVars,
                   client_held, made, lazy, got>>

\* lines 55-65: connect() called by the user
ConnectAgain ==
    /\ made < MaxConnections
    /\ made' = made + 1
    /\ client_held' = made + 1
    /\ UNCHANGED <<fetchVars, lookupVars, alignVars, credsVars, usersVars,
                   lazy, got, connect_errors>>

\* lines 55-65: JIRA(...) raises before the assignment to _client
ConnectAgainFails ==
    /\ connect_errors < MaxConnections
    /\ connect_errors' = connect_errors + 1
    /\ UNCHANGED <<fetchVars, lookupVars, alignVars, credsVars, usersVars,
                   client_held, made, lazy, got>>

NextClient ==
    \/ ClientProperty
    \/ ClientPropertyFails
    \/ ConnectAgain
    \/ ConnectAgainFails

SpecClient == InitClient /\ [][NextClient]_vars

\* ------------------------------------------------------------ users
\* Some JiraUsersCache instances over one JiraUsersAPI, each with or without
\* global_cache, and lookups on them in any order; the JIRA client answers
\* user(key) with the user of that key or a JIRAError, and
\* search_users(email) with a user, with nothing or with a JIRAError.
NumCaches == 2
MaxLookups == 2
Instances == 1..NumCaches
\* the caches there are: 0 is the class-level CACHE, i the _cache of i
Scopes == 0..NumCaches

KeyReplies(key) ==
    {UserReply("found", u) : u \in {v \in Users : v.key = key}}
    \cup {UserReply("JIRAError", NoUser)}
EmailReplies ==
    {UserReply("found", u) : u \in Users}
    \cup {UserReply("empty", NoUser), UserReply("JIRAError", NoUser)}

InitUsers ==
    /\ CACHE = <<>>
    /\ global_cache \in [Instances -> BOOLEAN]
    /\ cache = [i \in Instances |-> <<>>]
    /\ lookups = 0
    /\ last = NoLookup
    /\ email_calls = [sc \in Scopes, e \in Emails |-> 0]
    /\ domain_aligner = NoAligner
    /\ InitFetchRest
    /\ InitLookupRest
    /\ InitAlignRest
    /\ InitCredsRest
    /\ InitClientRest

\* the dict instance i uses, and the assignment of it
DictOf(i) == IF UsesClassCache(global_cache, i) THEN CACHE ELSE cache[i]

StoreDict(i, d) ==
    IF UsesClassCache(global_cache, i)
    THEN CACHE' = d /\ cache' = cache
    ELSE cache' = [cache EXCEPT ![i] = d] /\ CACHE' = CACHE

\* instance i . get_user_by_key(key), lines 52-77
GetUserByKey(i, key, r) ==
    LET res == cache_get_user_by_key(DictOf(i), key, r)
    IN  /\ lookups < MaxLookups
        /\ res[4] <=> r # NoUserReply
        /\ lookups' = lookups + 1
        /\ StoreDict(i, res[1])
        /\ last' = Lookup(i, "get_user_by_key", key, res[4], r, res[2],
                          res[3],
                          last.inst = i /\ last.op = "get_user_by_key"
                            /\ last.arg = key)
        /\ UNCHANGED <<fetchVars, lookupVars, alignVars, credsVars,
                       clientVars, global_cache, email_calls>>

\* instance i . get_user_by_email(user_email), lines 79-101
GetUserByEmail(i, user_email, r) ==
    LET res == cache_get_user_by_email(DictOf(i), user_email, r)
        sc == IF UsesClassCache(global_cache, i) THEN 0 ELSE i
    IN  /\ lookups < MaxLookups
        /\ res[4] <=> r # NoUserReply
        /\ lookups' = lookups + 1
        /\ StoreDict(i, res[1])
        /\ last' = Lookup(i, "get_user_by_email", user_email, res[4], r,
                          res[2], res[3],
                          last.inst = i /\ last.op = "get_user_by_email"
                            /\ last.arg = user_email)
        /\ email_calls' = IF res[4]
                          THEN [email_calls EXCEPT ![sc, user_email] = @ + 1]
                          ELSE email_calls
        /\ UNCHANGED <<fetchVars, lookupVars, alignVars, credsVars,
                       clientVars, global_cache>>

ByKey ==
    \E i \in Instances, key \in Keys \cup {""} :
        \E r \in KeyReplies(key) \cup {NoUserReply} : GetUserByKey(i, key, r)

ByEmail ==
    \E i \in Instances, user_email \in Emails \cup {""} :
        \E r \in EmailReplies \cup {NoUserReply} :
            GetUserByEmail(i, user_email, r)

NextUsers == ByKey \/ ByEmail

SpecUsers == InitUsers /\ [][NextUsers]_vars

\* ------------------------------------------------------------ lookups
\* A JiraIssuesAPI, with or without aligner, and one lookup against a client
\* that answers in any way.
InitLookup ==
    /\ reply \in Replies
    /\ lookup = "none"
    /\ outcome = Idle
    /\ domain_aligner \in {NoAligner, DEFAULT_MAPPINGS}
    /\ InitFetchRest
    /\ InitAlignRest
    /\ InitCredsRest
    /\ InitClientRest
    /\ InitUsersRest

GetIssueByIssueKey ==
    /\ lookup = "none"
    /\ reply.kind \in {"ResultList", "JIRAError"}
    /\ lookup' = "get_issue_by_issue_key"
    /\ outcome' = get_issue_by_issue_key(reply, domain_aligner)
    /\ UNCHANGED <<fetchVars, alignVars, credsVars, clientVars, usersVars,
                   reply>>

GetIssueById ==
    /\ lookup = "none"
    /\ reply.kind \in {"Issue", "JIRAError"}
    /\ lookup' = "get_issue_by_id"
    /\ outcome' = get_issue_by_id(reply, domain_aligner)
    /\ UNCHANGED <<fetchVars, alignVars, credsVars, clientVars, usersVars,
                   reply>>

NextLookup == GetIssueByIssueKey \/ GetIssueById

SpecLookup == InitLookup /\ [][NextLookup]_vars

\* ------------------------------------------------------------ properties
\* C1: within one fetch_all invocation, whatever pages search_issues
\* returns, no two yielded records have the same id.
C1_NoDuplicateYield == IsInjective(yielded)

\* a page that repeats a record already yielded is being iterated
C1_Witness ==
    /\ pc = "page"
    /\ Len(yielded) >= 2
    /\ results # <<>>
    /\ Head(results) \in Range(yielded)

\* C2: with limit N > 0 never more than N records are yielded, and a
\* fetch_all consumed to completion over an unchanging collection yields
\* exactly min(N, size of the collection) records.
C2_LimitCount ==
    limit > 0 =>
        /\ Len(yielded) <= limit
        /\ (pc = "done" /\ ~mutated) => Len(yielded) = Min(limit, Len(coll))

\* the limit cut a larger collection short
C2_Witness ==
    /\ limit > 0
    /\ pc = "done"
    /\ ~mutated
    /\ Len(coll) > limit
    /\ Len(yielded) = limit

\* C3: with limit N > 0, no search_issues call is issued once the Nth
\* record has been yielded.
C3_NoCallAfterLimit ==
    [][(limit > 0 /\ Len(yielded) = limit) => calls' = calls]_vars

\* C4: with overscan and no limit, over a collection that grows by
\* insertions while the generator runs, at termination every record the
\* collection held at the last search_issues call has been yielded exactly
\* once.
C4_OverscanExactlyOnce ==
    (overscan /\ limit = 0 /\ pc = "done") =>
        /\ Range(snapshot) \subseteq Range(yielded)
        /\ IsInjective(yielded)

\* a record inserted during the walk was found by a restart pass
C4_Witness ==
    /\ overscan
    /\ limit = 0
    /\ pc = "done"
    /\ mutated
    /\ restarts >= 1
    /\ Len(snapshot) = NumIds
    /\ Len(yielded) = NumIds

\* C5: with overscan, offset 0 is requested again only after a pass in
\* which a page reported another total than the pass's first page, and only
\* once every record of the pages fetched so far was delivered; a pass in
\* which a page reported another total never ends the walk.
C5_RestartOnTotalChange ==
    [][/\ (calls' # calls /\ calls # <<>> /\ start_at = 0) =>
              (overscan /\ passChanged /\ yielded = expected)
       /\ (overscan /\ done') => ~passChanged']_vars

\* one restart, then a pass of constant totals that ended the walk
C5_Witness ==
    /\ overscan
    /\ restarts = 1
    /\ done
    /\ Len(calls) >= 4

\* C6: with overscan, no limit and a restart, at termination the yielded
\* ids are the ids of all records of all pages ever fetched, each once.
C6_OverscanUnion ==
    (overscan /\ limit = 0 /\ restarts >= 1 /\ pc = "done") =>
        /\ Range(yielded) = fetched
        /\ IsInjective(yielded)

C6_Witness ==
    /\ overscan
    /\ limit = 0
    /\ restarts >= 1
    /\ pc = "done"
    /\ Cardinality(fetched) >= 2

\* C7: without overscan a changed total never restarts the walk: the i-th
\* call is at offset (i-1) * page_size, no call is at an offset beyond the
\* total the first page reported, and the walk is over once the offset
\* exceeds that total.
C7_NoRestartWithoutOverscan ==
    ~overscan =>
        /\ \A i \in 1..Len(calls) : calls[i] = (i - 1) * page_size
        /\ \A i \in 2..Len(calls) : calls[i] <= passFirst
        /\ restarts = 0
        /\ (passFirst # None /\ start_at > passFirst) => done

\* a later page reported another total and the walk ended all the same
C7_Witness ==
    /\ ~overscan
    /\ done
    /\ passChanged
    /\ Len(calls) >= 2

\* C8: the yielded records are, in order, the first occurrences of the
\* records of the fetched pages in call order: always a prefix of them, and
\* all of them whenever a page has been completed.
C8_FirstOccurrenceOrder ==
    /\ IsPrefix(yielded, expected)
    /\ (pc = "fetch" \/ done) => yielded = expected

C8_Witness ==
    /\ done
    /\ restarts >= 1
    /\ Len(yielded) >= 2
    /\ Len(calls) >= 3

\* C9: a search_issues call is made only while the caller waits for an
\* element it has requested, and none after the caller stopped consuming.
Answers == Len(yielded) + (IF pc \in {"done", "failed"} THEN 1 ELSE 0)

C9_Lazy ==
    [][/\ calls' # calls => demand > Answers
       /\ pc = "closed" => calls' = calls
       /\ pc' = "closed" => demand' = Answers']_vars

\* the caller left in the middle of a page
C9_Witness ==
    /\ pc = "closed"
    /\ calls # <<>>
    /\ results # <<>>

\* C10: a failed search_issues call ends the sequence with the error: no
\* call follows it, and the records of all pages fetched before it were
\* delivered in order, each once.
C10_ErrorPropagates ==
    [][/\ errors > 0 => (calls' = calls /\ yielded' = yielded)
       /\ errors' > 0 => /\ pc' = "failed"
                         /\ yielded' = expected'
                         /\ IsInjective(yielded')]_vars

C10_Witness ==
    /\ pc = "failed"
    /\ Len(calls) >= 3
    /\ Len(yielded) >= 2

\* C11: get_issue_by_issue_key returns None when the query returns no
\* result or fails with the not-found message (both "An issue with key" and
\* "does not exist" in the text), the first match when there is one, and
\* raises every other remote error with its text unchanged.
C11_ByKeyOutcome ==
    lookup = "get_issue_by_issue_key" =>
        LET notFound == /\ reply.kind = "JIRAError"
                        /\ "An issue with key" \in Range(reply.text)
                        /\ "does not exist" \in Range(reply.text)
        IN  /\ (notFound \/ (reply.kind = "ResultList" /\ reply.items = <<>>))
                  => (outcome.kind = "return" /\ outcome.value = None)
            /\ (reply.kind = "ResultList" /\ reply.items # <<>>)
                  => (outcome.kind = "return"
                      /\ outcome.value = Head(reply.items))
            /\ (reply.kind = "JIRAError" /\ ~notFound)
                  => (outcome.kind = "raise" /\ outcome.text = reply.text)

C11_Witness ==
    /\ lookup = "get_issue_by_issue_key"
    /\ reply.kind = "JIRAError"
    /\ reply.text = <<"An issue with key", "'X'", "does not exist">>
    /\ outcome.kind = "return"
    /\ outcome.value = None

\* C12: get_issue_by_id returns None exactly when the fetch fails with a
\* text containing "Issue Does Not Exist"; every other remote error, the
\* lookup-by-key not-found message included, is raised with its text
\* unchanged, and a successful fetch returns the record.
C12_ByIdOutcome ==
    lookup = "get_issue_by_id" =>
        LET absent == /\ reply.kind = "JIRAError"
                      /\ "Issue Does Not Exist" \in Range(reply.text)
        IN  /\ (outcome.kind = "return" /\ outcome.value = None) <=> absent
            /\ (reply.kind = "JIRAError" /\ ~absent)
                  => (outcome.kind = "raise" /\ outcome.text = reply.text)
            /\ reply.kind = "Issue"
                  => (outcome.kind = "return"
                      /\ outcome.value = Head(reply.items))

C12_Witness ==
    /\ lookup = "get_issue_by_id"
    /\ reply.kind = "JIRAError"
    /\ reply.text = <<"An issue with key", "'X'", "does not exist">>
    /\ outcome.kind = "raise"
    /\ outcome.text = reply.text

\* C13: every search_issues call of an invocation carries the query and
\* the options of the invocation (the caller's options, with maxResults 50
\* added when the caller gave none), which never change, and the offset the
\* engine stands at, which is 0 at the first call.
C13_SameArguments ==
    [][/\ jql' = jql
       /\ jira_kwargs' = jira_kwargs
       /\ Len(sent') > Len(sent) =>
            /\ Len(sent') = Len(sent) + 1
            /\ SubSeq(sent', 1, Len(sent)) = sent
            /\ sent'[Len(sent')].jql = jql
            /\ sent'[Len(sent')].startAt = start_at
            /\ Len(sent) = 0 => sent'[1].startAt = 0
            /\ DOMAIN sent'[Len(sent')].kwargs
                  = DOMAIN jira_kwargs \cup {"maxResults"}
            /\ \A k \in DOMAIN jira_kwargs :
                  sent'[Len(sent')].kwargs[k] = jira_kwargs[k]
            /\ "maxResults" \notin DOMAIN jira_kwargs
                  => sent'[Len(sent')].kwargs["maxResults"] = 50]_vars

C13_Witness ==
    /\ Len(sent) >= 2
    /\ sent[2].startAt = MaxPageSize
    /\ sent[2].kwargs = [maxResults |-> MaxPageSize, fields |-> "summary"]
    /\ sent[2].jql = jql

\* C14: whatever the table and the URL, every further application of
\* realign_api_domain leaves the URL the first one left, and a URL that
\* holds a mapped-to host is returned as it was, without a warning.
C14_Idempotent ==
    /\ \A i \in 1..Len(self_log) : self_log[i] = self_log[1]
    /\ (/\ Len(self_log) >= 1
        /\ \E i \in 1..Len(mappings) :
              Contains(original_self, mappings[i][2]))
          => (self_log[1] = original_self /\ warn_log[1] = 0)

C14_Witness ==
    /\ Len(self_log) >= 2
    /\ self_log[1] # original_self
    /\ self_log[2] = self_log[1]
    /\ Contains(mappings[1][2], mappings[1][1])

\* C15: a yielded record whose self URL holds no host of the mapping keeps
\* that URL and costs one warning; the aligner never ends the fetch, which
\* yields the first occurrences of the fetched records, in order, as
\* without an aligner.
Unmapped(uri) ==
    \A i \in 1..Len(domain_aligner) :
        /\ ~Contains(uri, domain_aligner[i][1])
        /\ ~Contains(uri, domain_aligner[i][2])

C15_UnmappedIsNotFatal ==
    /\ Len(yielded_self) = Len(yielded)
    /\ \A i \in 1..Len(yielded) :
          Unmapped(SelfOf(yielded[i])) => yielded_self[i] = SelfOf(yielded[i])
    /\ warnings
          = Cardinality({i \in 1..Len(yielded) : Unmapped(SelfOf(yielded[i]))})
    /\ pc = "failed" => errors > 0
    /\ IsPrefix(yielded, expected)
    /\ (pc = "fetch" \/ done) => yielded = expected

C15_Witness ==
    /\ Len(yielded) >= 2
    /\ Unmapped(SelfOf(yielded[1]))
    /\ yielded_self[1] = SelfOf(yielded[1])
    /\ yielded_self[2] # SelfOf(yielded[2])
    /\ warnings = 1

\* The layers as the specification counts them: what a layer yields when it
\* yields a non-empty identity and a non-empty secret.
FileText(path) == IF files[path].exists THEN Strip(files[path].content) ELSE <<>>

LayerLocal ==
    IF /\ environ["LOCAL_JIRA_USER"] # <<>>
       /\ environ["LOCAL_JIRA_PASS"] # <<>>
       /\ FileText(environ["LOCAL_JIRA_USER"]) # <<>>
       /\ FileText(environ["LOCAL_JIRA_PASS"]) # <<>>
    THEN <<Credentials(FileText(environ["LOCAL_JIRA_USER"]),
                       FileText(environ["LOCAL_JIRA_PASS"]),
                       "Local Cred Files")>>
    ELSE <<>>

LayerEnv ==
    IF environ["ENV_JIRA_USER"] # <<>> /\ environ["ENV_JIRA_PASS"] # <<>>
    THEN <<Credentials(environ["ENV_JIRA_USER"], environ["ENV_JIRA_PASS"],
                       "Local Env Vars")>>
    ELSE <<>>

LayerHome ==
    IF /\ FileText(DEV_USER_PATH(User)) # <<>>
       /\ FileText(DEV_PASSWD_PATH(User)) # <<>>
    THEN <<Credentials(FileText(DEV_USER_PATH(User)),
                       FileText(DEV_PASSWD_PATH(User)), "OneFlow, user")>>
    ELSE <<>>

LayerProduction ==
    IF /\ jira_environment = "Prod"
       /\ FileText(PROD_USER_PATH) # <<>>
       /\ FileText(PROD_PASSWD_PATH) # <<>>
    THEN <<Credentials(FileText(PROD_USER_PATH), FileText(PROD_PASSWD_PATH),
                       "Production")>>
    ELSE <<>>

\* the yielding layers, in the order of the specification
Layers == LayerLocal \o LayerEnv \o LayerHome \o LayerProduction

\* C16 (as stated): load_credentials returns the credentials of the first
\* layer, in the order local files, raw variables, home files, production
\* files, that yields a non-empty identity and a non-empty secret.
C16_FirstYieldingLayer ==
    (loaded # NotLoaded /\ Layers # <<>>) => loaded = Head(Layers)

\* C16 (amended): in production only the service-account files are read.
\* Elsewhere the layers are local files, raw variables, home files, in this
\* order, and the first one that is configured is taken: both LOCAL_
\* variables non-empty, both ENV_ variables non-empty, both home files
\* present.  A file layer gives what the files hold, stripped, even when
\* that is empty, and fails with the error of open() when a file it reads
\* is missing; with no layer configured the result is None.
C16_LayersAsCoded ==
    loaded # NotLoaded =>
        LET read(up, pp, alias) ==
                IF files[up].exists /\ files[pp].exists
                THEN Credentials(Strip(files[up].content),
                                 Strip(files[pp].content), alias)
                ELSE FileNotFoundError
            localSet == /\ environ["LOCAL_JIRA_USER"] # <<>>
                        /\ environ["LOCAL_JIRA_PASS"] # <<>>
            envSet == /\ environ["ENV_JIRA_USER"] # <<>>
                      /\ environ["ENV_JIRA_PASS"] # <<>>
            homeSet == /\ files[DEV_USER_PATH(User)].exists
                       /\ files[DEV_PASSWD_PATH(User)].exists
        IN  CASE jira_environment = "Prod" ->
                   loaded = read(PROD_USER_PATH, PROD_PASSWD_PATH,
                                 "Production")
              [] jira_environment # "Prod" /\ localSet ->
                   loaded = read(environ["LOCAL_JIRA_USER"],
                                 environ["LOCAL_JIRA_PASS"],
                                 "Local Cred Files")
              [] jira_environment # "Prod" /\ ~localSet /\ envSet ->
                   loaded = Credentials(environ["ENV_JIRA_USER"],
                                        environ["ENV_JIRA_PASS"],
                                        "Local Env Vars")
              [] jira_environment # "Prod" /\ ~localSet /\ ~envSet
                   /\ homeSet ->
                   loaded = read(DEV_USER_PATH(User), DEV_PASSWD_PATH(User),
                                 "OneFlow, user")
              [] OTHER -> loaded = NoCredentials

\* production, with the raw variables set as well
C16_Witness ==
    /\ jira_environment = "Prod"
    /\ LayerEnv # <<>>
    /\ loaded.kind = "Credentials"
    /\ loaded.alias = "Production"
    /\ loaded.username = <<"secret">>

\* C17: when no layer yields credentials, load_credentials returns None and
\* does not raise, in every environment, and JiraClient connects with the
\* empty pair.
C17_AbsentWhenNothingFound ==
    Layers = <<>> =>
        /\ loaded # NotLoaded => loaded = NoCredentials
        /\ client_auth # NotConnected => client_auth = Auth(<<>>, <<>>)

\* C18: the step that sends the walk back to offset 0 is taken with
\* force_restart set and changes start_at (to 0), total (to unset) and
\* force_restart (to false) only: the seen ids, the count of records and the
\* records yielded stay as they were, and the walk goes on.
C18_RestartFrame ==
    [][(pc = "page" /\ pc' = "fetch" /\ start_at' = 0) =>
          /\ force_restart
          /\ total' = None
          /\ ~force_restart'
          /\ ~done'
          /\ issue_ids' = issue_ids
          /\ item_count' = item_count
          /\ yielded' = yielded
          /\ UNCHANGED <<config, default_jira_kwargs, results>>]_vars

\* just after a restart, with records seen and counted
C18_Witness ==
    /\ restarts >= 1
    /\ pc = "fetch"
    /\ start_at = 0
    /\ total = None
    /\ ~force_restart
    /\ issue_ids # {}
    /\ item_count = Cardinality(issue_ids)
    /\ Len(yielded) = item_count

\* C19: with overscan, total is the total the first page of the pass
\* reported, whatever later pages report; the walk restarts only at the end
\* of a page all of whose new records were yielded and only when the next
\* offset exceeds that total; while it does not, the next request is at the
\* next offset, a detected change notwithstanding.
C19_RestartAfterPass ==
    [][overscan =>
          /\ total' # None => total' = passFirst'
          /\ (pc = "page" /\ pc' = "fetch" /\ start_at' = 0) =>
                /\ results = <<>>
                /\ yielded = expected
                /\ start_at + page_size > passFirst
          /\ (pc = "page" /\ results = <<>>
              /\ start_at + page_size <= passFirst) =>
                /\ pc' = "fetch"
                /\ start_at' = start_at + page_size
                /\ force_restart' = force_restart]_vars

\* a change of the total was detected and the walk goes on to the next
\* offset
C19_Witness ==
    /\ overscan
    /\ force_restart
    /\ passChanged
    /\ pc = "fetch"
    /\ start_at > 0
    /\ start_at <= passFirst
    /\ yielded # <<>>

\* C20: without overscan and without limit, a walk that is consumed ends,
\* and when it ends by exhaustion it has made floor(T / page_size) + 1
\* calls, at offsets 0, page_size, 2 * page_size, ..., T being the total of
\* the first page.
C20_Terminates ==
    /\ []((~overscan /\ limit = 0 /\ pc = "done") =>
            /\ Len(calls) = (passFirst \div page_size) + 1
            /\ \A i \in 1..Len(calls) : calls[i] = (i - 1) * page_size)
    /\ (~overscan /\ limit = 0) ~> (pc \in {"done", "failed", "closed"})

\* page size 1, first total 2, another total later: three calls
C20_Witness ==
    /\ ~overscan
    /\ limit = 0
    /\ pc = "done"
    /\ page_size = 1
    /\ passFirst = 2
    /\ passChanged
    /\ calls = <<0, 1, 2>>
    /\ yielded # <<>>

Ended == pc \in {"done", "failed", "closed"}

C21_RestartsUntilStable ==
    /\ [][(overscan /\ pc = "page" /\ results = <<>> /\ pc' # "page"
           /\ start_at + page_size > passFirst) =>
             IF passChanged
             THEN ~done' /\ pc' = "fetch" /\ start_at' = 0
             ELSE done' /\ pc' = "done"]_vars
    /\ settled ~> (Ended \/ Len(calls) = MaxCalls)
    /\ (settled /\ Len(calls) <= 1) ~> Ended

\* two passes with a changing total, then the total stopped changing and
\* the third pass ended the walk
C21_Witness ==
    /\ overscan
    /\ limit = 0
    /\ restarts = 2
    /\ settled
    /\ done
    /\ pc = "done"

\* C22: nothing is connected at construction; an access of the client
\* property connects exactly when no connection is held and returns the
\* connection held afterwards, so that at most one connection is ever made
\* by the property and later accesses return the held one without
\* connecting; connect() called by the user makes a new connection that
\* replaces the held one.
C22_LazyOnce ==
    /\ [](lazy <= 1)
    /\ []((got = <<>> /\ made = 0) => client_held = NoClient)
    /\ [][/\ (got' # got /\ client_held = NoClient) =>
               /\ made' = made + 1
               /\ client_held' = made'
               /\ got' = Append(got, made')
          /\ (got' # got /\ client_held # NoClient) =>
               /\ made' = made
               /\ client_held' = client_held
               /\ got' = Append(got, client_held)
          /\ (got' = got /\ made' # made) =>
               /\ made' = made + 1
               /\ client_held' = made'
               /\ client_held' # client_held]_vars

\* a lazy connection, replaced by connect(), and the new one returned twice
C22_Witness ==
    /\ lazy = 1
    /\ made = 2
    /\ got = <<1, 2, 2>>
    /\ client_held = 2

\* the cache an instance uses (0 the class-level CACHE, i its own _cache),
\* and that cache before and after a step
ScopeOfInst(i) == IF global_cache[i] THEN 0 ELSE i
ScopeDict(sc) == IF sc = 0 THEN CACHE ELSE cache[sc]
ScopeDictAfter(sc) == IF sc = 0 THEN CACHE' ELSE cache'[sc]
CachesUnchanged == CACHE' = CACHE /\ cache' = cache
IsLookup(op) == lookups' = lookups + 1 /\ last'.op = op

\* C23 as stated: get_user_by_email calls the users API at most once per
\* email and cache, the first result (None included) is the entry of that
\* email from then on, every later call returns the entry without a call,
\* and an empty email returns None without a call or a change.
C23_OneCallPerEmail ==
    [][/\ \A sc \in Scopes, e \in Emails : email_calls'[sc, e] <= 1
       /\ \A sc \in Scopes, e \in Emails :
            Has(ScopeDict(sc), e) =>
                /\ Has(ScopeDictAfter(sc), e)
                /\ Get(ScopeDictAfter(sc), e) = Get(ScopeDict(sc), e)
       /\ (IsLookup("get_user_by_email") /\ last'.arg # ""
             /\ Has(ScopeDict(ScopeOfInst(last'.inst)), last'.arg)) =>
                /\ ~last'.called
                /\ last'.kind = "return"
                /\ last'.value
                     = Get(ScopeDict(ScopeOfInst(last'.inst)), last'.arg)
       /\ (IsLookup("get_user_by_email") /\ last'.arg = "") =>
                /\ ~last'.called
                /\ last'.kind = "return"
                /\ last'.value = NoUser
                /\ CachesUnchanged]_vars

\* C23 as coded: get_user_by_email calls the users API exactly when the
\* cache of the instance has no entry for the email; a call that raises
\* JIRAError raises to the caller and caches nothing, so the email is asked
\* again; an answered call stores its result (None included) as the entry;
\* a call for an email with an entry returns the entry without a call; an
\* entry is never removed and changes only when get_user_by_key fetches a
\* user with that emailAddress, which then replaces it; an empty email
\* returns None without a call or a change.
C23_OneAnsweredCallPerEmail ==
    [][/\ \A sc \in Scopes, e \in Emails :
            Has(ScopeDict(sc), e) =>
                /\ Has(ScopeDictAfter(sc), e)
                /\ \/ Get(ScopeDictAfter(sc), e) = Get(ScopeDict(sc), e)
                   \/ /\ IsLookup("get_user_by_key")
                      /\ last'.called
                      /\ sc = ScopeOfInst(last'.inst)
                      /\ last'.value # NoUser
                      /\ last'.value.emailAddress = e
                      /\ Get(ScopeDictAfter(sc), e) = last'.value
       /\ (IsLookup("get_user_by_email") /\ last'.arg # ""
             /\ Has(ScopeDict(ScopeOfInst(last'.inst)), last'.arg)) =>
                /\ ~last'.called
                /\ last'.kind = "return"
                /\ last'.value
                     = Get(ScopeDict(ScopeOfInst(last'.inst)), last'.arg)
                /\ CachesUnchanged
                /\ email_calls' = email_calls
       /\ (IsLookup("get_user_by_email") /\ last'.arg # ""
             /\ ~Has(ScopeDict(ScopeOfInst(last'.inst)), last'.arg)) =>
                /\ last'.called
                /\ email_calls'[ScopeOfInst(last'.inst), last'.arg]
                     = email_calls[ScopeOfInst(last'.inst), last'.arg] + 1
                /\ IF last'.reply.kind = "JIRAError"
                   THEN /\ last'.kind = "raise"
                        /\ CachesUnchanged
                   ELSE /\ last'.kind = "return"
                        /\ last'.value = IF last'.reply.kind = "found"
                                         THEN last'.reply.user ELSE NoUser
                        /\ ScopeDictAfter(ScopeOfInst(last'.inst))
                             = Append(ScopeDict(ScopeOfInst(last'.inst)),
                                      <<last'.arg, last'.value>>)
       /\ (IsLookup("get_user_by_email") /\ last'.arg = "") =>
                /\ ~last'.called
                /\ last'.kind = "return"
                /\ last'.value = NoUser
                /\ CachesUnchanged
                /\ email_calls' = email_calls]_vars

\* the same email asked twice of one instance: the first answer was None,
\* and the second lookup returns the cached None without a call
C23_Witness ==
    /\ last.op = "get_user_by_email"
    /\ last.again
    /\ last.arg # ""
    /\ ~last.called
    /\ last.kind = "return"
    /\ last.value = NoUser
    /\ email_calls[ScopeOfInst(last.inst), last.arg] = 1

\* whether dict d holds a user with that key
HoldsKey(d, key) ==
    \E n \in 1..Len(d) : d[n][2] # NoUser /\ d[n][2].key = key

\* a lookup on instance i went by the dict d alone: the API was called
\* exactly when d could not answer, and an answer without a call is d's
WentBy(d) ==
    /\ (last'.op = "get_user_by_email" /\ last'.arg # "") =>
          /\ last'.called <=> ~Has(d, last'.arg)
          /\ ~last'.called => last'.value = Get(d, last'.arg)
    /\ (last'.op = "get_user_by_key" /\ last'.arg # "") =>
          /\ last'.called <=> ~HoldsKey(d, last'.arg)
          /\ ~last'.called =>
                \E n \in 1..Len(d) :
                    d[n][2] = last'.value /\ last'.value.key = last'.arg

\* C24: in every lookup on any instance, in any interleaving: an instance
\* with global_cache false leaves the class-level CACHE and every other
\* instance's _cache as they were and is answered by its own _cache alone
\* (it calls the API for what only CACHE or another _cache holds); an
\* instance with global_cache true leaves every _cache as it was and is
\* answered by CACHE alone, so an entry put there through any instance is
\* served to it without an API call.
C24_ScopeIsolation ==
    [][/\ global_cache' = global_cache
       /\ lookups' = lookups + 1 =>
            IF global_cache[last'.inst]
            THEN /\ cache' = cache
                 /\ WentBy(CACHE)
            ELSE /\ CACHE' = CACHE
                 /\ \A j \in Instances \ {last'.inst} : cache'[j] = cache[j]
                 /\ WentBy(cache[last'.inst])]_vars

\* a private instance called the API for an email that CACHE already held,
\* and keeps an answer of its own that differs from the shared one
C24_Witness ==
    /\ last.inst \in Instances
    /\ ~global_cache[last.inst]
    /\ \E j \in Instances : global_cache[j]
    /\ last.op = "get_user_by_email"
    /\ last.called
    /\ Has(CACHE, last.arg)
    /\ Has(cache[last.inst], last.arg)
    /\ Get(cache[last.inst], last.arg) # Get(CACHE, last.arg)
    /\ last.value = Get(cache[last.inst], last.arg)

\* C25: JiraUsersAPI.get_user_by_key answers every JIRAError of the JIRA
\* client with None, so get_user_by_key never raises; the cache does not
\* store a None of get_user_by_key: the caches stay as they were, and the
\* next lookup of a key no cached user has calls the API again.
C25_KeyErrorIsNone ==
    [][IsLookup("get_user_by_key") =>
        /\ last'.kind = "return"
        /\ (last'.called /\ last'.reply.kind = "JIRAError") =>
              /\ last'.value = NoUser
              /\ CachesUnchanged
        /\ last'.value = NoUser => CachesUnchanged
        /\ (last'.arg # ""
              /\ ~HoldsKey(ScopeDict(ScopeOfInst(last'.inst)), last'.arg)) =>
              last'.called]_vars

\* the same key looked up twice in a row on one instance, the API called
\* again the second time and answering with a JIRAError again: None
C25_Witness ==
    /\ last.op = "get_user_by_key"
    /\ last.again
    /\ last.called
    /\ last.reply.kind = "JIRAError"
    /\ last.kind = "return"
    /\ last.value = NoUser
    /\ CACHE = <<>>
    /\ \A i \in Instances : cache[i] = <<>>

====
